---------------------------- MODULE Spec2Model ----------------------------
(***************************************************************************)
(* A model of wordle.py: the feedback generator, the consistency           *)
(* predicate, the minimax guess selector and the interactive game loop.    *)
(*                                                                         *)
(* A word is a sequence of one-character strings.  A (position, letter)    *)
(* pair is the tuple <<p, l>> with the zero-based position p of the code,  *)
(* so the letter of word at position p is word[p + 1].  A                   *)
(* collections.Counter is a function from Alphabet to the integers (a      *)
(* Counter reads 0 for a key it does not hold).  An Optional value is a    *)
(* sequence: None is <<>> and the value v is <<v>>.                        *)
(***************************************************************************)
EXTENDS Integers, Sequences, FiniteSets, TLC

VARIABLES
    pc,             \* the position of the program
    soln, guess,    \* generate_feedback's arguments; the game's suggestion
    word,           \* the word a predicate is applied to
    green_pairs, yellow_pairs, gray_pairs,  \* a feedback; the game's parsed input
    consistent,     \* the last result of a predicate
    guesses, candidates,    \* select_guess's arguments; the game's candidates
    result,         \* what select_guess returned
    all_solutions, all_guesses, i, worst_case,  \* the game loop's variables
    input_green, input_yellow, input_gray       \* the lines the game read

vars == <<pc, soln, guess, word, green_pairs, yellow_pairs, gray_pairs,
          consistent, guesses, candidates, result, all_solutions,
          all_guesses, i, worst_case, input_green, input_yellow, input_gray>>

selectVars == <<guesses, candidates, result>>
gameVars == <<all_solutions, all_guesses, i, worst_case,
              input_green, input_yellow, input_gray>>

---------------------------------------------------------------------------
(* Bounds and alphabets *)

\* Longest word the feedback specifications draw.
MaxLen == 4

\* Longest word the candidate specification draws.
CandLen == 3

\* Longest word the predicate specification draws.
PredLen == 2

\* Longest guess pool the selector specification draws.
MaxGuesses == 2

\* Most words of the solution list the game specification loads.
MaxWords == 3

\* Letters of the words the specifications draw.
Letters == {"a", "b", "c"}

\* The spec's duplicate-letter scenario: solution "abide", guess "erase".
ScenarioSoln == <<"a", "b", "i", "d", "e">>
ScenarioGuess == <<"e", "r", "a", "s", "e">>

\* The hard-coded first suggestion.
FirstGuess == <<"a", "r", "i", "s", "e">>
FirstWorstCase == 168

\* Letters of the words and marks the predicate specification draws.
PredLetters == {"a", "b"}

\* The words of the selector specification's candidate lists, and those of
\* its guess pools.
SelWords == {<<"b", "b", "c">>, <<"a", "b", "b">>, <<"a", "b", "c">>,
             <<"a", "c", "b">>, <<"c", "b", "b">>}
SelGuessWords == {<<"a", "b", "c">>, <<"a", "a", "a">>, <<"b", "b", "c">>}

\* The game loop plays range(Rounds) rounds and reads lines of InputLen
\* characters.
Rounds == 6
InputLen == 5

\* solutions.txt, of which the game specification loads a prefix, and
\* guesses.txt.
GameWords == << <<"a", "a", "b", "b", "b">>, <<"a", "b", "a", "b", "a">>,
                <<"b", "a", "b", "a", "b">>, <<"b", "b", "a", "a", "b">> >>
ExtraGuesses == << <<"a", "a", "a", "a", "a">> >>

\* The characters a typed line marks a position with.
MarkChars == {"a", "B"}

\* The character the game loop's prompts name for a blank.
Blank == "_"

\* The upper-case characters the model types, with str.lower() of each.
LowerOf == [ch \in {"A", "B"} |-> IF ch = "A" THEN "a" ELSE "b"]

Range(s) == {s[k] : k \in 1..Len(s)}

\* Every lower-case letter a word of the model holds: the keys of a Counter.
Alphabet == Letters \cup Range(ScenarioSoln) \cup Range(ScenarioGuess)
            \cup Range(FirstGuess)

WordsOfLen(n) == [1..n -> Letters]
Words == UNION {WordsOfLen(n) : n \in 0..MaxLen}

None == <<>>
Some(v) == <<v>>

---------------------------------------------------------------------------
(* Helpers of the Python the code uses *)

\* enumerate(word): the (position, letter) pairs of word, zero-based.
Enumerate(w) == [k \in 1..Len(w) |-> <<k - 1, w[k]>>]

\* x in list
InList(x, s) == \E k \in 1..Len(s) : s[k] = x

\* An empty collections.Counter.
EmptyCounter == [l \in Alphabet |-> 0]

\* for letter in word: letter_counts[letter] += 1
RECURSIVE CountLoop(_, _, _)
CountLoop(w, k, letter_counts) ==
    IF k > Len(w) THEN letter_counts
    ELSE CountLoop(w, k + 1, [letter_counts EXCEPT ![w[k]] = @ + 1])

CountLetters(w) == CountLoop(w, 1, EmptyCounter)

\* str.isalpha() and str.lower() of one character.
IsAlpha(ch) == ch \in Alphabet \cup DOMAIN LowerOf
ToLower(ch) == IF ch \in DOMAIN LowerOf THEN LowerOf[ch] ELSE ch

\* [(position, letter.lower()) for (position, letter) in enumerate(line)
\*  if letter.isalpha()]
ParsePairs(line) ==
    LET kept == SelectSeq(Enumerate(line), LAMBDA pair : IsAlpha(pair[2]))
    IN  [k \in 1..Len(kept) |-> <<kept[k][1], ToLower(kept[k][2])>>]

---------------------------------------------------------------------------
(* generate_feedback *)

\* The (position, letter) pairs where soln and guess hold the same letter.
GreenPairs(s, g) ==
    SelectSeq(Enumerate(s), LAMBDA pair : g[pair[1] + 1] = pair[2])

\* A mutant of SubtractGreen: the green letters use up nothing.
SubtractGreenNothing(letter_counts, green, k) == letter_counts

\* Green letters use up letters of the solution.
RECURSIVE SubtractGreen(_, _, _)
SubtractGreen(letter_counts, green, k) ==
    IF k > Len(green) THEN letter_counts
    ELSE SubtractGreen([letter_counts EXCEPT ![green[k][2]] = @ - 1],
                       green, k + 1)

\* A mutant of IsYellow: the excess test is off by one.
IsYellowOffByOne(letter_counts, green, pos, letter) ==
    letter_counts[letter] >= 0 /\ ~InList(<<pos, letter>>, green)

\* A mutant of IsYellow: the last excess letter is never given out.
IsYellowShort(letter_counts, green, pos, letter) ==
    letter_counts[letter] > 1 /\ ~InList(<<pos, letter>>, green)

\* There are excess letters that are not already marked green.
IsYellow(letter_counts, green, pos, letter) ==
    letter_counts[letter] > 0 /\ ~InList(<<pos, letter>>, green)

\* The loop over enumerate(guess) that collects the yellow pairs.
RECURSIVE YellowLoop(_, _, _, _, _)
YellowLoop(g, green, letter_counts, k, yellow) ==
    IF k > Len(g) THEN yellow
    ELSE LET pos == k - 1
             letter == g[k]
         IN  IF IsYellow(letter_counts, green, pos, letter)
             THEN YellowLoop(g, green,
                             [letter_counts EXCEPT ![letter] = @ - 1],
                             k + 1, Append(yellow, <<pos, letter>>))
             ELSE YellowLoop(g, green, letter_counts, k + 1, yellow)

\* A mutant of GrayPairs: the green pairs are not left out.
GrayPairsKeepGreen(g, green, yellow) ==
    SelectSeq(Enumerate(g), LAMBDA pair : ~InList(pair, yellow))

\* All remaining pairs are gray.
GrayPairs(g, green, yellow) ==
    SelectSeq(Enumerate(g),
              LAMBDA pair : ~InList(pair, green) /\ ~InList(pair, yellow))

\* generate_feedback(soln, guess), for len(soln) = len(guess).
generate_feedback(s, g) ==
    LET green == GreenPairs(s, g)
        letter_counts == SubtractGreen(CountLetters(s), green, 1)
        yellow == YellowLoop(g, green, letter_counts, 1, <<>>)
        gray == GrayPairs(g, green, yellow)
    IN  [green |-> green, yellow |-> yellow, gray |-> gray]

---------------------------------------------------------------------------
(* word_consistent *)

\* A mutant of GreenConsume: a green letter does not use up a letter.
GreenConsumeNothing(letter_counts, l) == letter_counts

\* letter_counts[l] -= 1 for a matching green pair.
GreenConsume(letter_counts, l) == [letter_counts EXCEPT ![l] = @ - 1]

\* The loop over green_pairs: [ok |-> FALSE] stands for "return False".
RECURSIVE GreenCheck(_, _, _, _)
GreenCheck(w, green, k, letter_counts) ==
    IF k > Len(green) THEN [ok |-> TRUE, counts |-> letter_counts]
    ELSE LET p == green[k][1]
             l == green[k][2]
         IN  IF w[p + 1] # l
             THEN [ok |-> FALSE, counts |-> letter_counts]
             ELSE GreenCheck(w, green, k + 1, GreenConsume(letter_counts, l))

\* The loop over yellow_pairs.
RECURSIVE YellowCheck(_, _, _, _)
YellowCheck(w, yellow, k, letter_counts) ==
    IF k > Len(yellow) THEN [ok |-> TRUE, counts |-> letter_counts]
    ELSE LET p == yellow[k][1]
             l == yellow[k][2]
         IN  IF w[p + 1] = l
             THEN [ok |-> FALSE, counts |-> letter_counts]
             ELSE IF letter_counts[l] <= 0
                  THEN [ok |-> FALSE, counts |-> letter_counts]
                  ELSE YellowCheck(w, yellow, k + 1,
                                   [letter_counts EXCEPT ![l] = @ - 1])

\* The loop over gray_pairs.
RECURSIVE GrayCheck(_, _, _)
GrayCheck(gray, k, letter_counts) ==
    IF k > Len(gray) THEN TRUE
    ELSE IF letter_counts[gray[k][2]] # 0 THEN FALSE
         ELSE GrayCheck(gray, k + 1, letter_counts)

\* word_consistent(green_pairs, yellow_pairs, gray_pairs)(word), for pairs
\* whose positions are positions of word.
word_consistent(green, yellow, gray, w) ==
    LET afterGreen == GreenCheck(w, green, 1, CountLetters(w))
    IN  IF ~afterGreen.ok THEN FALSE
        ELSE LET afterYellow == YellowCheck(w, yellow, 1, afterGreen.counts)
             IN  IF ~afterYellow.ok THEN FALSE
                 ELSE GrayCheck(gray, 1, afterYellow.counts)

\* list(filter(pred, words))
Filter(green, yellow, gray, ws) ==
    SelectSeq(ws, LAMBDA w : word_consistent(green, yellow, gray, w))

---------------------------------------------------------------------------
(* SpecFb: generate_feedback on every pair of words, then the predicate of  *)
(* the feedback on the solution itself.                                     *)

Idle == <<>>

InitFb ==
    /\ pc = "call"
    /\ \/ soln \in Words /\ guess \in Words
       \/ soln = ScenarioSoln /\ guess = ScenarioGuess
    /\ word = Idle
    /\ green_pairs = <<>> /\ yellow_pairs = <<>> /\ gray_pairs = <<>>
    /\ consistent = FALSE
    /\ guesses = <<>> /\ candidates = <<>> /\ result = Idle
    /\ all_solutions = <<>> /\ all_guesses = <<>> /\ i = 0 /\ worst_case = 0
    /\ input_green = <<>> /\ input_yellow = <<>> /\ input_gray = <<>>

\* generate_feedback(soln, guess): the assert, then the feedback.
GenerateFeedback ==
    /\ pc = "call"
    /\ IF Len(soln) # Len(guess)
       THEN /\ pc' = "AssertionError"
            /\ UNCHANGED <<green_pairs, yellow_pairs, gray_pairs>>
       ELSE LET fb == generate_feedback(soln, guess)
            IN  /\ green_pairs' = fb.green
                /\ yellow_pairs' = fb.yellow
                /\ gray_pairs' = fb.gray
                /\ pc' = "fed"
    /\ UNCHANGED <<soln, guess, word, consistent>>
    /\ UNCHANGED selectVars
    /\ UNCHANGED gameVars

\* word_consistent(*feedback)(soln)
CheckSolution ==
    /\ pc = "fed"
    /\ word' = soln
    /\ consistent' = word_consistent(green_pairs, yellow_pairs, gray_pairs, soln)
    /\ pc' = "checked"
    /\ UNCHANGED <<soln, guess, green_pairs, yellow_pairs, gray_pairs>>
    /\ UNCHANGED selectVars
    /\ UNCHANGED gameVars

NextFb == GenerateFeedback \/ CheckSolution

SpecFb == InitFb /\ [][NextFb]_vars

---------------------------------------------------------------------------
(* Properties of generate_feedback, under SpecFb *)

\* Occurrences of letter l in word w.
Occ(l, w) == Cardinality({k \in 1..Len(w) : w[k] = l})

\* The number of pairs of a list that hold letter l.
NumPairs(l, pairs) == Cardinality({k \in 1..Len(pairs) : pairs[k][2] = l})

\* The letters and the positions of a list of pairs.
PairLetters(pairs) == {pairs[k][2] : k \in 1..Len(pairs)}
PairPositions(pairs) == {pairs[k][1] : k \in 1..Len(pairs)}

Min(a, b) == IF a <= b THEN a ELSE b
Max(a, b) == IF a >= b THEN a ELSE b

\* generate_feedback(soln, guess) has returned its three lists.
Fed == pc \in {"fed", "checked"}

\* C1: soundness.  The predicate built from the feedback of (soln, guess)
\* accepts soln itself, and filtering a candidate list that holds soln by
\* that feedback keeps soln.
C1_Soundness ==
    /\ pc = "checked" => consistent = TRUE
    /\ Fed => InList(soln, Filter(green_pairs, yellow_pairs, gray_pairs,
                                  <<guess, soln, guess>>))

\* C1's case: a solution checked against a feedback with green, yellow and
\* gray evidence at once.
C1_Witness ==
    /\ pc = "checked" /\ consistent
    /\ green_pairs # <<>> /\ yellow_pairs # <<>> /\ gray_pairs # <<>>

\* C5, as claimed: no letter of a green or yellow pair is also the letter of
\* a gray pair.
C5_Original ==
    Fed => (PairLetters(green_pairs) \cup PairLetters(yellow_pairs))
               \cap PairLetters(gray_pairs) = {}

\* C5, amended: a letter of a green or yellow pair is the letter of a gray
\* pair only when guess holds more occurrences of it than soln.
C5_GrayOnlyForExcess ==
    Fed => \A l \in (PairLetters(green_pairs) \cup PairLetters(yellow_pairs))
                        \cap PairLetters(gray_pairs) :
               Occ(l, guess) > Occ(l, soln)

\* C5's case: a letter that is yellow at one position and gray at another.
C5_Witness ==
    Fed /\ PairLetters(yellow_pairs) \cap PairLetters(gray_pairs) # {}

\* The duplicate-letter scenario has been fed back.
ScenarioFed == Fed /\ soln = ScenarioSoln /\ guess = ScenarioGuess

\* C7, as claimed: "abide" against "erase" gives green [(4,'e')], no yellow
\* pair, gray letters that include r, a and s and do not include e.
C7_Original ==
    ScenarioFed =>
        /\ green_pairs = << <<4, "e">> >>
        /\ yellow_pairs = <<>>
        /\ {"r", "a", "s"} \subseteq PairLetters(gray_pairs)
        /\ "e" \notin PairLetters(gray_pairs)

\* C7, amended: "abide" against "erase" gives green [(4,'e')], yellow
\* [(2,'a')] and gray [(0,'e'), (1,'r'), (3,'s')].
C7_Scenario ==
    ScenarioFed =>
        /\ green_pairs = << <<4, "e">> >>
        /\ yellow_pairs = << <<2, "a">> >>
        /\ gray_pairs = << <<0, "e">>, <<1, "r">>, <<3, "s">> >>

\* C7's case: the scenario's feedback has been generated.
C7_Witness == ScenarioFed /\ pc = "fed"

\* C8: generate_feedback(w, w) gives a green pair for every position of w in
\* increasing order, no yellow pair and no gray pair.
C8_SelfFeedback ==
    (Fed /\ soln = guess) =>
        /\ Len(green_pairs) = Len(soln)
        /\ \A k \in 1..Len(soln) : green_pairs[k] = <<k - 1, soln[k]>>
        /\ yellow_pairs = <<>>
        /\ gray_pairs = <<>>

\* C8's case: a word with a repeated letter fed back against itself.
C8_Witness ==
    /\ pc = "fed" /\ soln = guess /\ Len(soln) >= 2
    /\ \E l \in Letters : Occ(l, soln) >= 2

\* C10: duplicate-letter accounting.  Every position of guess is in exactly
\* one of the three lists; per letter, green plus yellow pairs number
\* min(occurrences in soln, occurrences in guess), gray pairs number
\* max(0, occurrences in guess - occurrences in soln), and the yellow pairs
\* are the leftmost positions of the letter in guess that are not green.
C10_Accounting ==
    Fed =>
        /\ Len(green_pairs) + Len(yellow_pairs) + Len(gray_pairs) = Len(guess)
        /\ \A p \in 0..(Len(guess) - 1) :
               \/ InList(<<p, guess[p + 1]>>, green_pairs)
               \/ InList(<<p, guess[p + 1]>>, yellow_pairs)
               \/ InList(<<p, guess[p + 1]>>, gray_pairs)
        /\ \A l \in Alphabet :
               /\ NumPairs(l, green_pairs) + NumPairs(l, yellow_pairs)
                      = Min(Occ(l, soln), Occ(l, guess))
               /\ NumPairs(l, gray_pairs)
                      = Max(0, Occ(l, guess) - Occ(l, soln))
        /\ \A k \in 1..Len(yellow_pairs) :
               \A q \in 0..(yellow_pairs[k][1] - 1) :
                   (guess[q + 1] = yellow_pairs[k][2]
                        /\ q \notin PairPositions(green_pairs))
                       => q \in PairPositions(yellow_pairs)

\* C10's case: one letter that is green, yellow and gray in one feedback.
C10_Witness ==
    Fed /\ \E l \in Letters :
               /\ l \in PairLetters(green_pairs)
               /\ l \in PairLetters(yellow_pairs)
               /\ l \in PairLetters(gray_pairs)

---------------------------------------------------------------------------
(* SpecCand: the predicate of the feedback of (soln, guess) on any          *)
(* candidate word of the same length.                                       *)

InitCand ==
    /\ pc = "call"
    /\ \E n \in 0..CandLen :
           /\ soln \in WordsOfLen(n)
           /\ guess \in WordsOfLen(n)
           /\ word \in WordsOfLen(n)
    /\ green_pairs = <<>> /\ yellow_pairs = <<>> /\ gray_pairs = <<>>
    /\ consistent = FALSE
    /\ guesses = <<>> /\ candidates = <<>> /\ result = Idle
    /\ all_solutions = <<>> /\ all_guesses = <<>> /\ i = 0 /\ worst_case = 0
    /\ input_green = <<>> /\ input_yellow = <<>> /\ input_gray = <<>>

\* word_consistent(green_pairs, yellow_pairs, gray_pairs)(word)
CheckWord ==
    /\ pc = "fed"
    /\ consistent' = word_consistent(green_pairs, yellow_pairs, gray_pairs, word)
    /\ pc' = "checked"
    /\ UNCHANGED <<soln, guess, word, green_pairs, yellow_pairs, gray_pairs>>
    /\ UNCHANGED selectVars
    /\ UNCHANGED gameVars

NextCand == GenerateFeedback \/ CheckWord

SpecCand == InitCand /\ [][NextCand]_vars

\* C3: the predicate of the feedback of (soln, guess) accepts a word exactly
\* when the word would have produced the same feedback for guess.
C3_ExactDecision ==
    pc = "checked" =>
        (consistent <=>
            generate_feedback(word, guess)
                = [green |-> green_pairs, yellow |-> yellow_pairs,
                   gray |-> gray_pairs])

\* C3's failing case: an accepted word that puts a letter on a position the
\* feedback marks gray for that letter.
C3_Witness ==
    /\ pc = "checked" /\ consistent
    /\ \E k \in 1..Len(gray_pairs) :
           word[gray_pairs[k][1] + 1] = gray_pairs[k][2]

---------------------------------------------------------------------------
(* SpecPred: the predicate on any word and any green, yellow and gray       *)
(* pairs, each list drawn as the game loop parses it from a line of marks.  *)

MarkLines(n) == [1..n -> PredLetters \cup {Blank}]
PairLists(n) == {ParsePairs(line) : line \in MarkLines(n)}

InitPred ==
    /\ pc = "fed"
    /\ \E n \in 0..PredLen :
           /\ word \in [1..n -> PredLetters]
           /\ green_pairs \in PairLists(n)
           /\ yellow_pairs \in PairLists(n)
           /\ gray_pairs \in PairLists(n)
    /\ soln = Idle /\ guess = Idle
    /\ consistent = FALSE
    /\ guesses = <<>> /\ candidates = <<>> /\ result = Idle
    /\ all_solutions = <<>> /\ all_guesses = <<>> /\ i = 0 /\ worst_case = 0
    /\ input_green = <<>> /\ input_yellow = <<>> /\ input_gray = <<>>

NextPred == CheckWord

SpecPred == InitPred /\ [][NextPred]_vars

\* Rules (1) and (2): the positions of the green and the yellow pairs.
PositionsOk(green, yellow, w) ==
    /\ \A k \in 1..Len(green) : w[green[k][1] + 1] = green[k][2]
    /\ \A k \in 1..Len(yellow) : w[yellow[k][1] + 1] # yellow[k][2]

\* C4, as claimed: the four-rule form.  A yellow letter occurs at least
\* once in word and a gray letter occurs nowhere in word.
C4_FourRules ==
    pc = "checked" =>
        (consistent <=>
            /\ PositionsOk(green_pairs, yellow_pairs, word)
            /\ \A l \in PairLetters(yellow_pairs) : Occ(l, word) >= 1
            /\ \A l \in PairLetters(gray_pairs) : Occ(l, word) = 0)

\* C4, amended: the counting form.  Rules (1) and (2) as claimed; (3) word
\* holds every letter of a yellow pair at least as often as green and
\* yellow pairs hold it; (4) word holds every gray letter exactly as often
\* as green and yellow pairs hold it.
C4_CountingRules ==
    pc = "checked" =>
        (consistent <=>
            /\ PositionsOk(green_pairs, yellow_pairs, word)
            /\ \A l \in PairLetters(yellow_pairs) :
                   Occ(l, word) >= NumPairs(l, green_pairs)
                                       + NumPairs(l, yellow_pairs)
            /\ \A l \in PairLetters(gray_pairs) :
                   Occ(l, word) = NumPairs(l, green_pairs)
                                      + NumPairs(l, yellow_pairs))

\* C4's case: an accepted word that holds a gray letter.
C4_Witness ==
    /\ pc = "checked" /\ consistent
    /\ \E l \in PairLetters(gray_pairs) : Occ(l, word) > 0

---------------------------------------------------------------------------
(* select_guess *)

\* len(list(filter(word_consistent(*feedback), candidates)))
Remaining(possible_soln, g, cs) ==
    LET feedback == generate_feedback(possible_soln, g)
    IN  Len(Filter(feedback.green, feedback.yellow, feedback.gray, cs))

\* if maximum_remaining is None or remaining > maximum_remaining
NewMaximum(maximum_remaining, remaining) ==
    IF maximum_remaining = None \/ remaining > maximum_remaining[1]
    THEN Some(remaining)
    ELSE maximum_remaining

\* The early break: the maximum of this guess is above the current minimax.
BreaksEarly(maximum_remaining, current_minimax) ==
    current_minimax # None /\ maximum_remaining[1] > current_minimax[1]

\* The loop over candidates for one guess: the maximum_remaining it ends
\* with, None when candidates is empty.
RECURSIVE SolnLoop(_, _, _, _, _)
SolnLoop(g, cs, k, maximum_remaining, current_minimax) ==
    IF k > Len(cs) THEN maximum_remaining
    ELSE LET remaining == Remaining(cs[k], g, cs)
             maximum == NewMaximum(maximum_remaining, remaining)
         IN  IF BreaksEarly(maximum, current_minimax)
             THEN maximum
             ELSE SolnLoop(g, cs, k + 1, maximum, current_minimax)

\* A mutant of Improves: a tie replaces the current minimax word.
ImprovesOrTies(maximum_remaining, current_minimax) ==
    current_minimax = None \/ maximum_remaining[1] <= current_minimax[1]

\* if current_minimax is None or maximum_remaining < current_minimax
Improves(maximum_remaining, current_minimax) ==
    current_minimax = None \/ maximum_remaining[1] < current_minimax[1]

\* The loop over guesses.
RECURSIVE GuessLoop(_, _, _, _, _)
GuessLoop(gs, cs, k, current_minimax, current_minimax_word) ==
    IF k > Len(gs)
    THEN [word |-> current_minimax_word, score |-> current_minimax]
    ELSE LET maximum_remaining == SolnLoop(gs[k], cs, 1, None, current_minimax)
         IN  IF Improves(maximum_remaining, current_minimax)
             THEN GuessLoop(gs, cs, k + 1, maximum_remaining, Some(gs[k]))
             ELSE GuessLoop(gs, cs, k + 1, current_minimax,
                            current_minimax_word)

\* select_guess(guesses, candidates): the pair it returns.
select_guess(gs, cs) == GuessLoop(gs, cs, 1, None, None)

---------------------------------------------------------------------------
(* SpecSelect: select_guess on every guess pool of up to MaxGuesses words   *)
(* and every candidate list without repeats (a word list), in any order.    *)

ListsUpTo(S, n) == UNION {[1..m -> S] : m \in 0..n}
NoRepeat(s) == \A j, k \in 1..Len(s) : j # k => s[j] # s[k]

InitSelect ==
    /\ pc = "call"
    /\ guesses \in ListsUpTo(SelGuessWords, MaxGuesses)
    /\ candidates \in {cs \in ListsUpTo(SelWords, Cardinality(SelWords)) :
                           NoRepeat(cs)}
    /\ result = Idle
    /\ soln = Idle /\ guess = Idle /\ word = Idle
    /\ green_pairs = <<>> /\ yellow_pairs = <<>> /\ gray_pairs = <<>>
    /\ consistent = FALSE
    /\ all_solutions = <<>> /\ all_guesses = <<>> /\ i = 0 /\ worst_case = 0
    /\ input_green = <<>> /\ input_yellow = <<>> /\ input_gray = <<>>

\* The call select_guess(guesses, candidates), to its return.
SelectGuess ==
    /\ pc = "call"
    /\ result' = select_guess(guesses, candidates)
    /\ pc' = "returned"
    /\ UNCHANGED <<guesses, candidates>>
    /\ UNCHANGED <<soln, guess, word, green_pairs, yellow_pairs, gray_pairs,
                   consistent>>
    /\ UNCHANGED gameVars

NextSelect == SelectGuess

SpecSelect == InitSelect /\ [][NextSelect]_vars

\* The number of candidates the feedback of (s, g) leaves.
Left(s, g, cs) ==
    LET fb == generate_feedback(s, g)
    IN  Cardinality({k \in 1..Len(cs) :
                        word_consistent(fb.green, fb.yellow, fb.gray, cs[k])})

\* The greatest and the least member of a non-empty set of numbers.
Greatest(S) == CHOOSE m \in S : \A v \in S : v <= m
Least(S) == CHOOSE m \in S : \A v \in S : v >= m

\* The exact worst case of guess g, and the exact minimax value.
WorstCase(g, cs) == Greatest({Left(cs[k], g, cs) : k \in 1..Len(cs)})
MinimaxValue(gs, cs) == Least({WorstCase(gs[k], cs) : k \in 1..Len(gs)})

\* C2: for a non-empty guess pool and a non-empty candidate list,
\* select_guess returns the exact minimax value and the first guess of the
\* pool whose exact worst case equals it, early break or not.
C2_ExactMinimax ==
    (pc = "returned" /\ guesses # <<>> /\ candidates # <<>>) =>
        LET s == MinimaxValue(guesses, candidates)
            first == CHOOSE k \in 1..Len(guesses) :
                         /\ WorstCase(guesses[k], candidates) = s
                         /\ \A j \in 1..(k - 1) :
                                WorstCase(guesses[j], candidates) # s
        IN  /\ result.score = Some(s)
            /\ result.word = Some(guesses[first])

\* C2's case: the second guess breaks early, on a running maximum below its
\* exact worst case.
C2_Witness ==
    /\ pc = "returned" /\ Len(guesses) = 2 /\ candidates # <<>>
    /\ WorstCase(guesses[1], candidates)
           < Left(candidates[1], guesses[2], candidates)
    /\ Left(candidates[1], guesses[2], candidates)
           < WorstCase(guesses[2], candidates)

\* C6: select_guess never returns a pair when the guess pool or the
\* candidate list is empty (it fails with an error instead).
C6_FailsOnEmpty ==
    ~(pc = "returned" /\ (guesses = <<>> \/ candidates = <<>>))

\* C6's failing case: a guess pool with an empty candidate list returns the
\* last guess and the score None.
C6_Witness ==
    /\ pc = "returned" /\ candidates = <<>> /\ Len(guesses) = 2
    /\ result = [word |-> Some(guesses[2]), score |-> None]

---------------------------------------------------------------------------
(* SpecGame: the game loop.  A step runs the loop from one input() to the   *)
(* next.  The typed lines are a line of the wrong length, the blank line    *)
(* and every line that marks one position.                                  *)

BlankLine == [p \in 1..InputLen |-> Blank]
ShortLine == <<>>
GameLines ==
    {ShortLine, BlankLine}
        \cup {[BlankLine EXCEPT ![p] = ch] : p \in 1..InputLen, ch \in MarkChars}

InitGame ==
    /\ pc = "select"
    /\ \E n \in 1..Min(MaxWords, Len(GameWords)) :
           all_solutions = SubSeq(GameWords, 1, n)
    /\ all_guesses = all_solutions \o ExtraGuesses
    /\ candidates = all_solutions
    /\ i = 0
    /\ guess = Idle /\ worst_case = 0
    /\ input_green = <<>> /\ input_yellow = <<>> /\ input_gray = <<>>
    /\ green_pairs = <<>> /\ yellow_pairs = <<>> /\ gray_pairs = <<>>
    /\ soln = Idle /\ word = Idle /\ consistent = FALSE
    /\ guesses = <<>> /\ result = Idle

\* A mutant of NextCandidates: the filter runs over the whole solution list.
NextCandidatesOfAll(green, yellow, gray, cs) ==
    Filter(green, yellow, gray, all_solutions)

\* candidates = list(filter(word_consistent(...), candidates))
NextCandidates(green, yellow, gray, cs) == Filter(green, yellow, gray, cs)

\* The top of a round, to the first input(): the suggestion.
Suggest ==
    /\ pc = "select"
    /\ IF i > 0
       THEN LET selected == select_guess(all_guesses, candidates)
            IN  /\ guess' = selected.word[1]
                /\ worst_case' = selected.score[1]
       ELSE /\ guess' = FirstGuess
            /\ worst_case' = FirstWorstCase
    /\ pc' = "green"
    /\ UNCHANGED <<all_solutions, all_guesses, candidates, i, input_green,
                   input_yellow, input_gray, green_pairs, yellow_pairs,
                   gray_pairs>>
    /\ UNCHANGED <<soln, word, consistent, guesses, result>>

\* The line of green letters, to the next input().
EnterGreen ==
    /\ pc = "green"
    /\ \E line \in GameLines :
           /\ input_green' = line
           /\ IF Len(line) # InputLen
              THEN pc' = "AssertionError" /\ UNCHANGED green_pairs
              ELSE green_pairs' = ParsePairs(line) /\ pc' = "yellow"
    /\ UNCHANGED <<all_solutions, all_guesses, candidates, i, guess,
                   worst_case, input_yellow, input_gray, yellow_pairs,
                   gray_pairs>>
    /\ UNCHANGED <<soln, word, consistent, guesses, result>>

\* The line of yellow letters, to the next input().
EnterYellow ==
    /\ pc = "yellow"
    /\ \E line \in GameLines :
           /\ input_yellow' = line
           /\ IF Len(line) # InputLen
              THEN pc' = "AssertionError" /\ UNCHANGED yellow_pairs
              ELSE yellow_pairs' = ParsePairs(line) /\ pc' = "gray"
    /\ UNCHANGED <<all_solutions, all_guesses, candidates, i, guess,
                   worst_case, input_green, input_gray, green_pairs,
                   gray_pairs>>
    /\ UNCHANGED <<soln, word, consistent, guesses, result>>

\* The line of gray letters, the filter, and the end of the round.
EnterGray ==
    /\ pc = "gray"
    /\ \E line \in GameLines :
           /\ input_gray' = line
           /\ IF Len(line) # InputLen
              THEN /\ pc' = "AssertionError"
                   /\ UNCHANGED <<gray_pairs, candidates, i>>
              ELSE LET gray == ParsePairs(line)
                       left == NextCandidates(green_pairs, yellow_pairs,
                                              gray, candidates)
                   IN  /\ gray_pairs' = gray
                       /\ candidates' = left
                       /\ IF Len(left) = 1
                          THEN pc' = "solved" /\ UNCHANGED i
                          ELSE IF Len(left) < 1
                               THEN pc' = "impossible" /\ UNCHANGED i
                               ELSE IF i + 1 < Rounds
                                    THEN pc' = "select" /\ i' = i + 1
                                    ELSE pc' = "finished" /\ UNCHANGED i
    /\ UNCHANGED <<all_solutions, all_guesses, guess, worst_case,
                   input_green, input_yellow, green_pairs, yellow_pairs>>
    /\ UNCHANGED <<soln, word, consistent, guesses, result>>

NextGame == Suggest \/ EnterGreen \/ EnterYellow \/ EnterGray

SpecGame == InitGame /\ [][NextGame]_vars

\* The j-th smallest member of a set K of numbers, and the members of list
\* cs at the positions K, in order.
Nth(K, j) == CHOOSE k \in K : Cardinality({m \in K : m < k}) = j - 1
Pick(cs, K) == [j \in 1..Cardinality(K) |-> cs[Nth(K, j)]]

\* List s is list t with some of its positions left out.
IsSubsequence(s, t) == \E K \in SUBSET (1..Len(t)) : s = Pick(t, K)

\* C9: the candidate set never grows.  A round leaves exactly the previous
\* candidates that the predicate of the round's parsed input accepts, in
\* their order; no other step changes the list; so the list is always a
\* subsequence of the initial solution list and never gets longer.
C9_NeverGrows ==
    [][/\ (pc = "gray" /\ pc' # "AssertionError") =>
              candidates' = Pick(candidates,
                  {k \in 1..Len(candidates) :
                       word_consistent(ParsePairs(input_green'),
                                       ParsePairs(input_yellow'),
                                       ParsePairs(input_gray'),
                                       candidates[k])})
       /\ ~(pc = "gray" /\ pc' # "AssertionError") => candidates' = candidates
       /\ IsSubsequence(candidates', candidates)
       /\ IsSubsequence(candidates', all_solutions)
       /\ Len(candidates') <= Len(candidates)]_vars

\* C9's case: a later round, with a candidate list that lost a word from
\* the middle of the solution list and still holds its neighbours.
C9_Witness ==
    /\ pc = "green" /\ i >= 2
    /\ Len(all_solutions) = 3
    /\ candidates = <<all_solutions[1], all_solutions[3]>>

=============================================================================
